---------------------------- MODULE Spec2Model ----------------------------
(***************************************************************************)
(* Skeleton-of-thought parallel decoding (src/parallel_decoding.py).       *)
(*                                                                         *)
(* main() repeats, num_iterations times, a parallel run (one skeleton      *)
(* call, one concurrent expansion call per line of the skeleton response,  *)
(* a merge of the expansions) and a normal run (one call), and collects    *)
(* what the runs return.                                                   *)
(*                                                                         *)
(* Text is a sequence of one-character strings.  The fixed wording of a    *)
(* prompt template is one symbolic element per fixed segment.  A list      *)
(* index i of the model (1-based) is the ordinal i-1 of the specification. *)
(***************************************************************************)
EXTENDS Integers, Sequences, FiniteSets, TLC

(***************************************************************************)
(* Bounds of the model.                                                    *)
(***************************************************************************)
MaxIterations == 2      \* num_iterations of a batch ranges over 0..MaxIterations
MaxLines == 3           \* lines of a skeleton response
MaxClock == 1           \* clock readings range over 0..MaxClock

(***************************************************************************)
(* Python string primitives used by the program.                           *)
(***************************************************************************)
NL == "\n"

Whitespace == {" ", "\t", NL}

Digits == {"0", "1", "2", "3", "4", "5", "6", "7", "8", "9"}

DigitValue(c) ==
    CASE c = "0" -> 0 [] c = "1" -> 1 [] c = "2" -> 2 [] c = "3" -> 3
      [] c = "4" -> 4 [] c = "5" -> 5 [] c = "6" -> 6 [] c = "7" -> 7
      [] c = "8" -> 8 [] c = "9" -> 9

\* str.split(sep) for a one-character separator: never an empty list.
RECURSIVE split(_, _)
split(s, sep) ==
    IF \A k \in DOMAIN s : s[k] # sep
    THEN <<s>>
    ELSE LET k == CHOOSE k \in DOMAIN s :
                      s[k] = sep /\ \A j \in 1..(k - 1) : s[j] # sep
         IN  <<SubSeq(s, 1, k - 1)>> \o split(SubSeq(s, k + 1, Len(s)), sep)

\* str.lstrip(chars): drops leading characters that belong to the set chars.
RECURSIVE lstrip(_, _)
lstrip(s, chars) ==
    IF s # <<>> /\ Head(s) \in chars THEN lstrip(Tail(s), chars) ELSE s

RECURSIVE rstrip(_, _)
rstrip(s, chars) ==
    IF s # <<>> /\ s[Len(s)] \in chars
    THEN rstrip(SubSeq(s, 1, Len(s) - 1), chars)
    ELSE s

\* str.strip(chars): the argument is a set of characters, not a prefix.
strip(s, chars) == rstrip(lstrip(s, chars), chars)

\* sep.join(parts)
RECURSIVE join(_, _)
join(parts, sep) ==
    IF parts = <<>> THEN <<>>
    ELSE IF Len(parts) = 1 THEN parts[1]
    ELSE parts[1] \o <<sep>> \o join(Tail(parts), sep)

\* The digits of an int() literal: surrounding whitespace and one sign removed.
int_body(s) ==
    LET t == strip(s, Whitespace)
    IN  IF t # <<>> /\ Head(t) \in {"+", "-"} THEN Tail(t) ELSE t

\* int(s) succeeds: digits, with single underscores between digits.
int_ok(s) ==
    LET u == int_body(s)
    IN  /\ u # <<>>
        /\ \A k \in DOMAIN u : u[k] \in Digits \cup {"_"}
        /\ u[1] \in Digits /\ u[Len(u)] \in Digits
        /\ \A k \in 1..(Len(u) - 1) : ~(u[k] = "_" /\ u[k + 1] = "_")

RECURSIVE digits_value(_)
digits_value(u) ==
    IF u = <<>> THEN 0
    ELSE IF u[Len(u)] = "_" THEN digits_value(SubSeq(u, 1, Len(u) - 1))
    ELSE 10 * digits_value(SubSeq(u, 1, Len(u) - 1)) + DigitValue(u[Len(u)])

\* int(s), defined where int_ok(s).
int(s) ==
    LET t == strip(s, Whitespace)
        v == digits_value(int_body(s))
    IN  IF t # <<>> /\ Head(t) = "-" THEN 0 - v ELSE v

(***************************************************************************)
(* Prompt templates.                                                       *)
(***************************************************************************)
\* The prompt of the entry point, as one symbolic element.
prompt == <<"<question>">>

model == "gpt-4"

get_skeleton_template(p) == <<"<skeleton-instructions>">> \o p \o <<NL>>

get_point_expanding_template(p, skeleton_text, subtask_text) ==
    <<"<expand-question>">> \o p
        \o <<"<expand-outline>">> \o skeleton_text
        \o <<"<expand-point>">> \o subtask_text
        \o <<"<expand-end>">>

(***************************************************************************)
(* What the remote completion client and the clock may return.             *)
(***************************************************************************)
\* A line of a skeleton response: empty, or a point.
SkeletonLines == { <<>>, <<"p">> }

RECURSIVE LinesUpTo(_)
LinesUpTo(n) ==
    IF n = 0 THEN {<<>>}
    ELSE LET shorter == LinesUpTo(n - 1)
         IN  shorter \cup {Append(ls, l) : ls \in shorter, l \in SkeletonLines}

SkeletonResponses == {join(ls, NL) : ls \in LinesUpTo(MaxLines)}

\* The skeleton responses of a batch of several iterations.
BatchSkeletonResponses == { <<>>, <<"p", NL, "p">> }

\* The label a model may echo in front of its answer.
SkeletonLabel == <<"S", "k", "e", "l", "e", "t", "o", "n", ":">>

\* Expansion texts: numbered, numbered and ending in a letter of the label,
\* with the echoed label in front, without a number.
ExpansionTexts ==
    { <<"1", ".", "a">>, <<"2", ".", "b">>, <<"1", ".", "n">>,
      SkeletonLabel \o <<" ", "1", ".", "n">>, <<"x">> }

NormalTexts == { <<"a", "b">> }

ClockReadings == 0..MaxClock

(***************************************************************************)
(* Result and its derived metric.                                          *)
(***************************************************************************)
None == [type |-> "NoneType"]

\* tiktoken's encoder is outside the repository: one token per character.
count_tokens(text) == Len(text)

\* Result.calculate_tokens_per_second raises on a division by zero.
calculate_tokens_per_second_ok(time_seconds) == time_seconds # 0

RECURSIVE gcd(_, _)
gcd(a, b) == IF b = 0 THEN a ELSE gcd(b, a % b)

\* The quotient a / b (b > 0) as a fraction in lowest terms.
quotient(a, b) ==
    LET g == gcd(a, b) IN [num |-> a \div g, den |-> b \div g]

\* Result.calculate_tokens_per_second: len(encoded) / time_seconds.
calculate_tokens_per_second(model_response, time_seconds) ==
    quotient(count_tokens(model_response), time_seconds)

\* A Result that keeps the tokens_per_second it is given, when given one.
Result_keeping_argument(p, model_response, m, time_seconds, call_type, tokens_per_second) ==
    [type |-> "Result", prompt |-> p, model_response |-> model_response,
     model |-> m, time_seconds |-> time_seconds,
     openai_call_type |-> call_type,
     tokens_per_second |->
        IF tokens_per_second = None
        THEN calculate_tokens_per_second(model_response, time_seconds)
        ELSE tokens_per_second]

\* The dataclass Result: __post_init__ overwrites the tokens_per_second field
\* of the constructor call with the computed value.
Result(p, model_response, m, time_seconds, call_type, tokens_per_second) ==
    [type |-> "Result", prompt |-> p, model_response |-> model_response,
     model |-> m, time_seconds |-> time_seconds,
     openai_call_type |-> call_type,
     tokens_per_second |->
        calculate_tokens_per_second(model_response, time_seconds)]

NoError == [type |-> "none", ordinals |-> {}]


(***************************************************************************)
(* The merge of run_parallel: trim, sort by the integer prefix, join.      *)
(***************************************************************************)
SkeletonLabelChars == {"S", "k", "e", "l", "t", "o", "n", ":"}

\* s.strip("Skeleton:").lstrip()
trim(s) == lstrip(strip(s, SkeletonLabelChars), Whitespace)

\* key=lambda s: int(s.split(".")[0])
sort_key_ok(s) == int_ok(split(s, ".")[1])

sort_key(s) == int(split(s, ".")[1])

\* An unstable sort: x goes before the elements whose key equals its key.
insert_by_key_unstable(xs, x) ==
    LET n == Cardinality({k \in DOMAIN xs : sort_key(xs[k]) < sort_key(x)})
    IN  SubSeq(xs, 1, n) \o <<x>> \o SubSeq(xs, n + 1, Len(xs))

\* sorted() is stable: x goes after every element whose key is <= its key.
insert_by_key(xs, x) ==
    LET n == Cardinality({k \in DOMAIN xs : sort_key(xs[k]) <= sort_key(x)})
    IN  SubSeq(xs, 1, n) \o <<x>> \o SubSeq(xs, n + 1, Len(xs))

RECURSIVE sorted(_)
sorted(xs) ==
    IF xs = <<>> THEN <<>>
    ELSE insert_by_key(sorted(SubSeq(xs, 1, Len(xs) - 1)), xs[Len(xs)])

trimmed(responses) == [i \in 1..Len(responses) |-> trim(responses[i])]

\* sorted() raises ValueError when a key is no integer literal.
merge_ok(responses) ==
    \A i \in 1..Len(responses) : sort_key_ok(trim(responses[i]))

merge(responses) == join(sorted(trimmed(responses)), NL)


(***************************************************************************)
(* State.                                                                  *)
(***************************************************************************)
VARIABLES
    pc,                 \* where main (and the run it is in) stands
    num_iterations,     \* main's argument
    iter,               \* iterations of main's loop already finished
    results,            \* main's list
    start,              \* the clock reading taken when the run began
    skeleton,           \* run_parallel: the skeleton request text
    skeleton_response,  \* run_parallel: the answer to the skeleton call
    subtask,            \* run_parallel: the lines of skeleton_response
    tasks,              \* the child tasks of gather, in submission order
    outer,              \* the future of gather that parallel_coroutine awaits
    parallel_response,  \* run_parallel: the merged text
    last_error,         \* the error the run printed, or raised out of main
    orphans,            \* tasks of finished runs still pending on the loop
    cancelled,          \* tasks cancelled when the loop shut down
    session,            \* the aiohttp session of main's async with
    loop,               \* the event loop of asyncio.run
    completed_runs,     \* runs that built their Result
    tokens_per_second_arg,  \* the tokens_per_second passed to the last Result(...)
    remote_calls        \* remote calls the current run has issued, by kind

vars == <<pc, num_iterations, iter, results, start, skeleton,
          skeleton_response, subtask, tasks, outer, parallel_response,
          last_error, orphans, cancelled, session, loop, completed_runs,
          tokens_per_second_arg, remote_calls>>

\* The locals of run_parallel and the futures of its gather.
frame == <<skeleton, skeleton_response, subtask, tasks, outer,
           parallel_response>>

IdleOuter == [state |-> "idle", nfinished |-> 0, result |-> <<>>, exc |-> 0]

PendingOuter ==
    [state |-> "pending", nfinished |-> 0, result |-> <<>>, exc |-> 0]

Pending(children) == {i \in DOMAIN children : children[i].state = "pending"}

Failed(children) == {i \in DOMAIN children : children[i].state = "failed"}

NumDone(children) == Cardinality(DOMAIN children \ Pending(children))

NoCalls == [skeleton |-> 0, expansion |-> 0, normal |-> 0]

\* The entry point calls main with num_iterations=1.
EntryIterations == 1

InitAt(position, iterations) ==
    /\ pc = position
    /\ num_iterations \in iterations
    /\ iter = 0
    /\ results = <<>>
    /\ start = 0
    /\ skeleton = <<>>
    /\ skeleton_response = <<>>
    /\ subtask = <<>>
    /\ tasks = <<>>
    /\ outer = IdleOuter
    /\ parallel_response = <<>>
    /\ last_error = NoError
    /\ orphans = 0
    /\ cancelled = 0
    /\ session = "open"
    /\ loop = "running"
    /\ completed_runs = 0
    /\ tokens_per_second_arg = None
    /\ remote_calls = NoCalls

\* main is about to enter its loop.
InitWith(iterations) == InitAt("loop", iterations)

Init == InitWith({EntryIterations})

InitBatch == InitWith(0..MaxIterations)

(***************************************************************************)
(* parallel_coroutine and asyncio.gather.                                  *)
(***************************************************************************)
\* One child per element of subtask, each with its own request.
parallel_coroutine(subtasks, p, skeleton_text) ==
    [i \in 1..Len(subtasks) |->
        [request |-> get_point_expanding_template(p, skeleton_text, subtasks[i]),
         state |-> "pending", text |-> <<>>, done_at |-> 0]]

\* A gather that hands the results over in the order the children ended.
gather_results_as_completed(children) ==
    [k \in 1..Len(children) |->
        children[CHOOSE i \in DOMAIN children : children[i].done_at = k].text]

\* gather's result list follows the order of its arguments.
gather_results(children) == [i \in 1..Len(children) |-> children[i].text]

\* gather's callback on the completion of child i (return_exceptions=False):
\* the first exception is set on the outer future at once; the result is set
\* when the last child has succeeded.
done_callback(o, children, i) ==
    IF o.state # "pending" THEN o
    ELSE IF children[i].state = "failed"
    THEN [o EXCEPT !.state = "exception", !.exc = i]
    ELSE IF o.nfinished + 1 = Len(children)
    THEN [state |-> "result", nfinished |-> o.nfinished + 1,
          result |-> gather_results(children), exc |-> 0]
    ELSE [o EXCEPT !.nfinished = o.nfinished + 1]

\* The task of child i ends with the text its expansion call returned.
child_returned(children, i, text) ==
    [children EXCEPT ![i].state = "done", ![i].text = text,
                     ![i].done_at = NumDone(children) + 1]

\* A dispatcher that cancels the pending siblings of a child that raised.
child_raised_cancelling_siblings(children, i) ==
    [j \in DOMAIN children |->
        IF j = i
        THEN [children[j] EXCEPT !.state = "failed",
                                 !.done_at = NumDone(children) + 1]
        ELSE IF children[j].state = "pending"
        THEN [children[j] EXCEPT !.state = "cancelled"]
        ELSE children[j]]

\* The task of child i ends with the exception its expansion call raised:
\* gather leaves the other children as they are.
child_raised(children, i) ==
    [children EXCEPT ![i].state = "failed",
                     ![i].done_at = NumDone(children) + 1]

\* run_parallel returns: its locals are gone, and the children of its gather
\* that are still pending stay on the loop.
DropFrame ==
    /\ skeleton' = <<>>
    /\ skeleton_response' = <<>>
    /\ subtask' = <<>>
    /\ orphans' = orphans + Cardinality(Pending(tasks))
    /\ tasks' = <<>>
    /\ outer' = IdleOuter
    /\ parallel_response' = <<>>

(***************************************************************************)
(* main's loop: the parallel run.                                          *)
(***************************************************************************)
\* main enters run_parallel: the request text is built, the clock is read and
\* the blocking skeleton call is issued.
ParallelStart ==
    /\ pc = "loop"
    /\ iter < num_iterations
    /\ skeleton' = get_skeleton_template(prompt)
    /\ \E t \in ClockReadings : start' = t
    /\ last_error' = NoError
    /\ pc' = "skeleton_call"
    /\ UNCHANGED <<num_iterations, iter, results, skeleton_response, subtask,
                   tasks, outer, parallel_response, orphans, cancelled,
                   session, loop, completed_runs>>
    /\ remote_calls' = [NoCalls EXCEPT !.skeleton = 1]
    /\ UNCHANGED tokens_per_second_arg

\* The skeleton call returns: the response is split into lines, one
\* expansion call per line is submitted and run_parallel awaits gather.
SkeletonCallReturn(responses) ==
    /\ pc = "skeleton_call"
    /\ \E resp \in responses :
        /\ skeleton_response' = resp
        /\ subtask' = split(resp, NL)
        /\ tasks' = parallel_coroutine(split(resp, NL), prompt, skeleton)
    /\ outer' = IF tasks' = <<>>
                THEN [PendingOuter EXCEPT !.state = "result"]
                ELSE PendingOuter
    /\ pc' = "gather"
    /\ UNCHANGED <<num_iterations, iter, results, start, skeleton,
                   parallel_response, last_error, orphans, cancelled, session,
                   loop, completed_runs>>
    /\ remote_calls' = [remote_calls EXCEPT !.expansion = Len(tasks')]
    /\ UNCHANGED tokens_per_second_arg

\* The skeleton call raises: the except clause prints the error.
\* A run that goes on to the fan-out after its skeleton call failed.
SkeletonCallRaise_dispatching ==
    /\ pc = "skeleton_call"
    /\ last_error' = [type |-> "RemoteCallError", ordinals |-> {}]
    /\ skeleton_response' = <<>>
    /\ subtask' = split(<<>>, NL)
    /\ tasks' = parallel_coroutine(split(<<>>, NL), prompt, skeleton)
    /\ outer' = PendingOuter
    /\ remote_calls' = [remote_calls EXCEPT !.expansion = Len(tasks')]
    /\ pc' = "gather"
    /\ UNCHANGED <<num_iterations, iter, results, start, skeleton,
                   parallel_response, orphans, cancelled, session, loop,
                   completed_runs, tokens_per_second_arg>>

\* A run that issues its skeleton call again when the call failed.
SkeletonCallRaise_retrying ==
    /\ pc = "skeleton_call"
    /\ remote_calls.skeleton <= MaxLines
    /\ remote_calls' = [remote_calls EXCEPT !.skeleton = @ + 1]
    /\ UNCHANGED <<pc, num_iterations, iter, results, start, frame,
                   last_error, orphans, cancelled, session, loop,
                   completed_runs, tokens_per_second_arg>>

SkeletonCallRaise ==
    /\ pc = "skeleton_call"
    /\ last_error' = [type |-> "RemoteCallError", ordinals |-> {}]
    /\ pc' = "except"
    /\ UNCHANGED <<num_iterations, iter, results, start, frame, orphans,
                   cancelled, session, loop, completed_runs>>
    /\ UNCHANGED <<tokens_per_second_arg, remote_calls>>

\* The expansion call of child i returns a text, while the loop runs.
ExpansionReturn ==
    /\ pc = "gather"
    /\ \E i \in Pending(tasks), text \in ExpansionTexts :
        /\ tasks' = child_returned(tasks, i, text)
        /\ outer' = done_callback(outer, tasks', i)
    /\ UNCHANGED <<pc, num_iterations, iter, results, start, skeleton,
                   skeleton_response, subtask, parallel_response, last_error,
                   orphans, cancelled, session, loop, completed_runs>>
    /\ UNCHANGED <<tokens_per_second_arg, remote_calls>>

\* The expansion call of child i raises, while the loop runs.
ExpansionRaise ==
    /\ pc = "gather"
    /\ \E i \in Pending(tasks) :
        /\ tasks' = child_raised(tasks, i)
        /\ outer' = done_callback(outer, tasks', i)
    /\ UNCHANGED <<pc, num_iterations, iter, results, start, skeleton,
                   skeleton_response, subtask, parallel_response, last_error,
                   orphans, cancelled, session, loop, completed_runs>>
    /\ UNCHANGED <<tokens_per_second_arg, remote_calls>>

\* A task left pending by a finished run ends, while the loop runs.
OrphanDone ==
    /\ pc = "gather"
    /\ orphans > 0
    /\ orphans' = orphans - 1
    /\ UNCHANGED <<pc, num_iterations, iter, results, start, skeleton,
                   skeleton_response, subtask, tasks, outer,
                   parallel_response, last_error, cancelled, session, loop,
                   completed_runs>>
    /\ UNCHANGED <<tokens_per_second_arg, remote_calls>>

\* gather delivered its result list: run_parallel trims, sorts and joins it;
\* a ValueError of the sort goes to the except clause.
GatherReturn ==
    /\ pc = "gather"
    /\ outer.state = "result"
    /\ IF merge_ok(outer.result)
       THEN /\ parallel_response' = merge(outer.result)
            /\ pc' = "merged"
            /\ UNCHANGED last_error
       ELSE /\ last_error' = [type |-> "ValueError", ordinals |-> {}]
            /\ pc' = "except"
            /\ UNCHANGED parallel_response
    /\ UNCHANGED <<num_iterations, iter, results, start, skeleton,
                   skeleton_response, subtask, tasks, outer, orphans,
                   cancelled, session, loop, completed_runs>>
    /\ UNCHANGED <<tokens_per_second_arg, remote_calls>>

\* gather delivered the first exception: the except clause prints it.
GatherRaise ==
    /\ pc = "gather"
    /\ outer.state = "exception"
    /\ last_error' = [type |-> "RemoteCallError", ordinals |-> {outer.exc}]
    /\ pc' = "except"
    /\ UNCHANGED <<num_iterations, iter, results, start, frame, orphans,
                   cancelled, session, loop, completed_runs>>
    /\ UNCHANGED <<tokens_per_second_arg, remote_calls>>

\* The except clause returns None, which main appends.
ParallelReturnNone ==
    /\ pc = "except"
    /\ results' = Append(results, None)
    /\ DropFrame
    /\ pc' = "normal_start"
    /\ UNCHANGED <<num_iterations, iter, start, last_error, cancelled,
                   session, loop, completed_runs>>
    /\ UNCHANGED <<tokens_per_second_arg, remote_calls>>

\* After the merge run_parallel reads the clock and builds its Result, which
\* main appends; a ZeroDivisionError of the metric leaves run_parallel and
\* main, and with it the async with block.
ParallelReturnResult ==
    /\ pc = "merged"
    /\ \E end \in {t \in ClockReadings : t >= start} :
        IF calculate_tokens_per_second_ok(end - start)
        THEN /\ results' = Append(results,
                    Result(prompt, parallel_response, model, end - start,
                           "parallel", None))
             /\ completed_runs' = completed_runs + 1
             /\ pc' = "normal_start"
             /\ UNCHANGED <<session, last_error>>
        ELSE /\ last_error' = [type |-> "ZeroDivisionError", ordinals |-> {}]
             /\ pc' = "raised"
             /\ session' = "closed"
             /\ UNCHANGED <<results, completed_runs>>
    /\ DropFrame
    /\ UNCHANGED <<num_iterations, iter, start, cancelled, loop>>
    /\ tokens_per_second_arg' = None
    /\ UNCHANGED remote_calls

(***************************************************************************)
(* main's loop: the normal run.                                            *)
(***************************************************************************)
\* main enters run_normal: the clock is read and the blocking call issued.
NormalStart ==
    /\ pc = "normal_start"
    /\ \E t \in ClockReadings : start' = t
    /\ last_error' = NoError
    /\ pc' = "normal_call"
    /\ UNCHANGED <<num_iterations, iter, results, frame, orphans, cancelled,
                   session, loop, completed_runs>>
    /\ remote_calls' = [NoCalls EXCEPT !.normal = 1]
    /\ UNCHANGED tokens_per_second_arg

\* The normal call returns: the clock is read and the Result built, which
\* main appends.
\* A main that puts the normal run's entry at the head of the list.
NormalCallReturn_prepending ==
    /\ pc = "normal_call"
    /\ \E text \in NormalTexts, end \in {t \in ClockReadings : t >= start} :
        IF calculate_tokens_per_second_ok(end - start)
        THEN /\ results' = <<Result(prompt, text, model, end - start, "normal",
                                    None)>> \o results
             /\ completed_runs' = completed_runs + 1
             /\ iter' = iter + 1
             /\ pc' = "loop"
             /\ UNCHANGED <<session, last_error>>
        ELSE /\ last_error' = [type |-> "ZeroDivisionError", ordinals |-> {}]
             /\ pc' = "raised"
             /\ session' = "closed"
             /\ UNCHANGED <<results, completed_runs, iter>>
    /\ UNCHANGED <<num_iterations, start, frame, orphans, cancelled, loop>>
    /\ tokens_per_second_arg' = None
    /\ UNCHANGED remote_calls

NormalCallReturn ==
    /\ pc = "normal_call"
    /\ \E text \in NormalTexts, end \in {t \in ClockReadings : t >= start} :
        IF calculate_tokens_per_second_ok(end - start)
        THEN /\ results' = Append(results,
                    Result(prompt, text, model, end - start, "normal",
                           None))
             /\ completed_runs' = completed_runs + 1
             /\ iter' = iter + 1
             /\ pc' = "loop"
             /\ UNCHANGED <<session, last_error>>
        ELSE /\ last_error' = [type |-> "ZeroDivisionError", ordinals |-> {}]
             /\ pc' = "raised"
             /\ session' = "closed"
             /\ UNCHANGED <<results, completed_runs, iter>>
    /\ UNCHANGED <<num_iterations, start, frame, orphans, cancelled, loop>>
    /\ tokens_per_second_arg' = None
    /\ UNCHANGED remote_calls

\* The normal call raises: run_normal prints the error and returns None,
\* which main appends.
NormalCallRaise ==
    /\ pc = "normal_call"
    /\ last_error' = [type |-> "RemoteCallError", ordinals |-> {}]
    /\ results' = Append(results, None)
    /\ iter' = iter + 1
    /\ pc' = "loop"
    /\ UNCHANGED <<num_iterations, start, frame, orphans, cancelled, session,
                   loop, completed_runs>>
    /\ UNCHANGED <<tokens_per_second_arg, remote_calls>>

\* The loop is over: main leaves the async with block and returns results.
MainReturn ==
    /\ pc = "loop"
    /\ iter = num_iterations
    /\ pc' = "returned"
    /\ session' = "closed"
    /\ UNCHANGED <<num_iterations, iter, results, start, frame, last_error,
                   orphans, cancelled, loop, completed_runs>>
    /\ UNCHANGED <<tokens_per_second_arg, remote_calls>>

\* asyncio.run ends: the tasks still pending are cancelled, the loop closed.
LoopShutdown ==
    /\ pc \in {"returned", "raised"}
    /\ loop = "running"
    /\ cancelled' = cancelled + orphans
    /\ orphans' = 0
    /\ loop' = "closed"
    /\ UNCHANGED <<pc, num_iterations, iter, results, start, frame,
                   last_error, session, completed_runs>>
    /\ UNCHANGED <<tokens_per_second_arg, remote_calls>>

(***************************************************************************)
(* Specifications.                                                         *)
(***************************************************************************)
\* The program as its entry point runs it: one iteration.
Next ==
    \/ ParallelStart
    \/ SkeletonCallReturn(SkeletonResponses)
    \/ SkeletonCallRaise
    \/ ExpansionReturn
    \/ ExpansionRaise
    \/ GatherReturn
    \/ GatherRaise
    \/ ParallelReturnNone
    \/ ParallelReturnResult
    \/ NormalStart
    \/ NormalCallReturn
    \/ NormalCallRaise
    \/ MainReturn
    \/ LoopShutdown

Spec == Init /\ [][Next]_vars

\* main with any number of iterations: tasks left pending by a run of an
\* earlier iteration end while a later run awaits its gather.
NextBatch ==
    \/ ParallelStart
    \/ SkeletonCallReturn(BatchSkeletonResponses)
    \/ SkeletonCallRaise
    \/ ExpansionReturn
    \/ ExpansionRaise
    \/ OrphanDone
    \/ GatherReturn
    \/ GatherRaise
    \/ ParallelReturnNone
    \/ ParallelReturnResult
    \/ NormalStart
    \/ NormalCallReturn
    \/ NormalCallRaise
    \/ MainReturn
    \/ LoopShutdown

SpecBatch == InitBatch /\ [][NextBatch]_vars

(***************************************************************************)
(* The dataclass Result used on its own: a caller builds Results from      *)
(* arbitrary responses, durations and tokens_per_second arguments.         *)
(***************************************************************************)
MaxResults == 2

\* time_seconds arguments; 0 makes __post_init__ raise.
Durations == 0..(MaxClock + 1)

ResultTexts ==
    NormalTexts \cup ExpansionTexts \cup { <<>>, <<"a", "b", "c", "d", "e", "f">> }

\* tokens_per_second arguments: the default None, or a number.
TokensPerSecondArgs ==
    {None, [num |-> 0, den |-> 1], [num |-> 7, den |-> 1]}

InitResult == InitAt("construct", {0})

\* Result(prompt, model_response, model, time_seconds, call_type,
\*        tokens_per_second) called by a user of the module.
ConstructResult ==
    /\ pc = "construct"
    /\ Len(results) < MaxResults
    /\ \E text \in ResultTexts, time_seconds \in Durations,
          call_type \in {"parallel", "normal"},
          tokens_per_second \in TokensPerSecondArgs :
        /\ tokens_per_second_arg' = tokens_per_second
        /\ IF calculate_tokens_per_second_ok(time_seconds)
           THEN /\ results' = Append(results,
                        Result(prompt, text, model, time_seconds, call_type,
                               tokens_per_second))
                /\ last_error' = NoError
           ELSE /\ last_error' =
                        [type |-> "ZeroDivisionError", ordinals |-> {}]
                /\ UNCHANGED results
    /\ UNCHANGED <<pc, num_iterations, iter, start, frame, orphans, cancelled,
                   session, loop, completed_runs, remote_calls>>

NextResult == ConstructResult

SpecResult == InitResult /\ [][NextResult]_vars

(***************************************************************************)
(* Properties.                                                             *)
(***************************************************************************)
\* The expansion texts in the order of their ordinals.
TextsByOrdinal == [i \in 1..Len(tasks) |-> tasks[i].text]

\* The lines of the skeleton response that are not empty.
NonEmptyLines == SelectSeq(split(skeleton_response, NL), LAMBDA l : l # <<>>)

\* run_parallel has received the skeleton response and submitted its calls.
Dispatched == outer.state # "idle"

\* C1: when every expansion has succeeded, the merged text of run_parallel is
\* the trimmed expansions joined in ordinal order 0,1,...,n-1, whatever
\* leading numbers the expansion texts carry.
C1_MergeFollowsOrdinals ==
    pc = "merged" => parallel_response = join(trimmed(TextsByOrdinal), NL)

\* C2: the result list that parallel_coroutine returns and the merged text of
\* run_parallel are functions of the text of each subtask alone: the order
\* in which the expansion calls ended (done_at) plays no part.
C2_CompletionOrderHidden ==
    /\ outer.state = "result" => outer.result = TextsByOrdinal
    /\ pc = "merged" => parallel_response = merge(TextsByOrdinal)

\* C2 witness: a run has merged expansions with different texts, of which a
\* later ordinal ended before an earlier one.
C2_Witness ==
    /\ pc = "merged"
    /\ \E i, j \in DOMAIN tasks :
        /\ i < j
        /\ tasks[j].done_at < tasks[i].done_at
        /\ tasks[i].text # tasks[j].text

\* C3: when control is back in run_parallel after the await, with a result or
\* with an error, no expansion call of the run is still pending.
C3_JoinPoint ==
    pc \in {"merged", "except"} => Pending(tasks) = {}

\* C4: every element of main's list is a Result, and the list holds as many
\* elements as runs have succeeded.
C4_BatchHoldsOnlyOutcomes ==
    /\ \A k \in DOMAIN results : results[k].type = "Result"
    /\ Len(results) = completed_runs

\* C5: no failure inside a run leaves main: main never raises.
C5_OrchestratorNeverRaises == pc # "raised"

\* C6: a run that fails because expansion calls failed reports exactly the
\* set of ordinals of the failed expansions.
C6_AllFailedOrdinalsReported ==
    (pc = "except" /\ Failed(tasks) # {}) =>
        last_error.ordinals = Failed(tasks)

\* C7: a parallel run whose remote calls all succeeded does not fail: labels
\* that are missing, non-numeric or duplicated are no reason to fail.
C7_LabelsNeverFailRun ==
    (Dispatched /\ tasks # <<>>
        /\ \A i \in DOMAIN tasks : tasks[i].state = "done") => pc # "except"

\* C8: the subtasks submitted for expansion are exactly the non-empty lines
\* of the skeleton response, in order, one expansion call per line.
C8_SubtasksAreNonEmptyLines ==
    Dispatched => (subtask = NonEmptyLines /\ Len(tasks) = Len(NonEmptyLines))

\* C9: a skeleton response that is empty or has only blank lines gives zero
\* subtasks and zero expansion calls, merges to the empty text and does not
\* fail.
C9_BlankOutlineIsEmptyRun ==
    (Dispatched /\ NonEmptyLines = <<>>) =>
        /\ tasks = <<>>
        /\ pc # "except"
        /\ pc = "merged" => parallel_response = <<>>

\* C10: the request of every expansion call is the expansion template filled
\* with the prompt, the skeleton response and the text of its subtask.
C10_RequestCarriesSkeletonResponse ==
    \A i \in DOMAIN tasks :
        tasks[i].request =
            get_point_expanding_template(prompt, skeleton_response, subtask[i])

\* C11: every Result of main's list has time_seconds > 0, and an interval of
\* zero is never the divisor of tokens_per_second: no division by it is
\* attempted.
C11_ZeroIntervalGuarded ==
    /\ \A k \in DOMAIN results :
        results[k].type = "Result" => results[k].time_seconds > 0
    /\ last_error.type # "ZeroDivisionError"

HasLabel(s) ==
    \E k \in 1..(Len(s) - Len(SkeletonLabel) + 1) :
        SubSeq(s, k, k + Len(SkeletonLabel) - 1) = SkeletonLabel

\* The lines of the merged text.
MergedLines == split(parallel_response, NL)

\* C13: when every expansion succeeded, an expansion text that holds no
\* "Skeleton:" label is a line of the merged text, unchanged, whatever
\* characters it begins or ends with.
C13_UnlabelledTextUnchanged ==
    pc = "merged" =>
        \A i \in DOMAIN tasks :
            ~HasLabel(tasks[i].text) =>
                \E k \in DOMAIN MergedLines : MergedLines[k] = tasks[i].text


\* C14: tokens_per_second of every Result is the token count of its
\* model_response divided by its time_seconds, whatever value the constructor
\* call passed for it; 6 tokens over 2 seconds give 3.
C14_TokensPerSecondDerived ==
    \A k \in DOMAIN results :
        results[k].type = "Result" =>
            LET q == results[k].tokens_per_second
                n == count_tokens(results[k].model_response)
            IN  /\ q.den > 0
                /\ q.num * results[k].time_seconds = n * q.den
                /\ (n = 6 /\ results[k].time_seconds = 2) =>
                        q = [num |-> 3, den |-> 1]

\* The last Result was built with a tokens_per_second argument that is not
\* the derived value.
C14_Witness ==
    /\ pc = "construct"
    /\ results # <<>>
    /\ last_error = NoError
    /\ tokens_per_second_arg # None
    /\ tokens_per_second_arg # results[Len(results)].tokens_per_second
    /\ count_tokens(results[Len(results)].model_response) = 6
    /\ results[Len(results)].time_seconds = 2


\* The steps run_parallel can take, as pairs of positions.
ParallelRunSteps ==
    { <<"loop", "skeleton_call">>,
      <<"skeleton_call", "gather">>, <<"skeleton_call", "except">>,
      <<"gather", "gather">>, <<"gather", "merged">>, <<"gather", "except">>,
      <<"merged", "normal_start">>, <<"merged", "raised">>,
      <<"except", "normal_start">> }

InParallelRun == pc \in {"skeleton_call", "gather", "merged", "except"}

InNormalRun == pc \in {"normal_start", "normal_call"}

\* The entry at position k of results is of the right kind for its position:
\* odd positions hold parallel runs, even positions normal runs.
EntryInPlace(k) ==
    results[k].type = "Result" =>
        results[k].openai_call_type = IF k % 2 = 1 THEN "parallel" ELSE "normal"

\* C16: the list of main is iteration-major: iteration i (counted from 0)
\* fills positions 2i+1 (its parallel run) and 2i+2 (its normal run), entries
\* are only ever appended, and the normal run of an iteration starts only
\* when the parallel run of that iteration has returned and left its entry.
C16_IterationMajor ==
    /\ [](/\ iter <= num_iterations
          /\ \A k \in DOMAIN results : EntryInPlace(k)
          /\ (pc \in {"loop", "returned"} \/ InParallelRun) =>
                Len(results) = 2 * iter
          /\ pc = "returned" => Len(results) = 2 * num_iterations
          /\ InNormalRun =>
                /\ Len(results) = 2 * iter + 1
                /\ outer = IdleOuter /\ tasks = <<>>)
    /\ [][ /\ iter' \in {iter, iter + 1}
           /\ results' # results =>
                /\ Len(results') = Len(results) + 1
                /\ SubSeq(results', 1, Len(results)) = results
                /\ IF InParallelRun THEN pc' = "normal_start" /\ iter' = iter
                                    ELSE pc = "normal_call"
           /\ pc' = "normal_start" => InParallelRun /\ results' # results
         ]_vars

\* main returned the entries of two iterations, every run having built its
\* Result.
C16_Witness ==
    /\ pc = "returned"
    /\ num_iterations = 2
    /\ Len(results) = 4
    /\ \A k \in 1..4 : results[k].type = "Result"
    /\ results[1].model_response # results[3].model_response


TotalCalls == remote_calls.skeleton + remote_calls.expansion + remote_calls.normal

\* C17: no remote call is issued twice: a parallel run issues its skeleton
\* call once and one expansion call per subtask, so at most 1 + n calls for n
\* subtasks, also once it has failed; a normal run issues exactly one call.
C17_NoRetry ==
    /\ remote_calls.skeleton <= 1
    /\ remote_calls.normal <= 1
    /\ InParallelRun =>
        /\ remote_calls.skeleton = 1 /\ remote_calls.normal = 0
        /\ remote_calls.expansion = Len(tasks)
        /\ Len(tasks) <= Len(subtask)
        /\ TotalCalls <= 1 + Len(subtask)
    /\ (pc = "except" /\ ~Dispatched) => TotalCalls = 1
    /\ pc = "normal_call" => TotalCalls = 1 /\ remote_calls.normal = 1
    /\ (pc = "loop" /\ iter > 0) => TotalCalls = 1 /\ remote_calls.normal = 1

\* A parallel run failed after its fan-out over several subtasks, one
\* expansion having raised.
C17_Witness ==
    /\ pc = "except"
    /\ Len(subtask) >= 2
    /\ Failed(tasks) # {}
    /\ TotalCalls = 1 + Len(subtask)


\* C18: no expansion call outlives its run: when the session of main is
\* closed, and while a later run's remote call is executing, no expansion
\* call of an earlier run is still in flight.
C18_NoExpansionOutlivesRun ==
    /\ session = "closed" => orphans = 0
    /\ pc \in {"normal_call", "skeleton_call", "gather"} => orphans = 0


\* The program has stopped: asyncio.run has closed the loop.
Stopped == loop = "closed"

\* C19: termination: a program that has stopped has returned from main, and
\* a run in which every expansion has ended is not left waiting: gather's
\* future holds its result or its exception.
C19_MainReturns ==
    /\ Stopped => pc = "returned"
    /\ (pc = "gather" /\ Pending(tasks) = {}) =>
            outer.state \in {"result", "exception"}


\* The text begins with an integer literal followed by '.'.
BeginsWithInteger(s) ==
    LET parts == split(s, ".") IN Len(parts) >= 2 /\ int_ok(parts[1])

\* The integer a text begins with.
IntegerPrefix(s) == int(split(s, ".")[1])

\* C20: when every expansion text begins with an integer followed by '.', the
\* merged text is the trimmed expansions joined by newlines in an order that
\* is a permutation of the ordinals, non-decreasing in the integer prefixes,
\* with equal prefixes in the order of their subtasks.
C20_MergeIsStablePermutation ==
    (pc = "merged" /\ \A i \in DOMAIN tasks : BeginsWithInteger(tasks[i].text)) =>
        \E pi \in Permutations(DOMAIN tasks) :
            /\ parallel_response =
                    join([k \in DOMAIN tasks |-> trim(tasks[pi[k]].text)], NL)
            /\ \A k, l \in DOMAIN tasks :
                    k < l =>
                        LET a == IntegerPrefix(tasks[pi[k]].text)
                            b == IntegerPrefix(tasks[pi[l]].text)
                        IN  a <= b /\ (a = b => pi[k] < pi[l])

\* A merge of three expansions: two with the same prefix and different
\* trimmed texts, after one with a greater prefix.
C20_Witness ==
    /\ pc = "merged"
    /\ Len(tasks) = 3
    /\ \A i \in DOMAIN tasks : BeginsWithInteger(tasks[i].text)
    /\ IntegerPrefix(tasks[1].text) > IntegerPrefix(tasks[2].text)
    /\ IntegerPrefix(tasks[2].text) = IntegerPrefix(tasks[3].text)
    /\ trim(tasks[2].text) # trim(tasks[3].text)

=============================================================================
